---- MODULE Spec2Model ----
(***************************************************************************)
(* The "stress" helper of lectures/6-dimensional_reduction.ipynb and the   *)
(* notebook cells that call it.                                            *)
(*                                                                         *)
(*     def stress(X_reduced, X):                                           *)
(*         D_red = pdist(X_reduced)                                        *)
(*         D_tot = pdist(X)                                                *)
(*         numerator = np.sum((D_tot - D_red)**2)                          *)
(*         denom = np.sum(D_tot**2)                                        *)
(*         return np.sqrt(numerator/denom)                                 *)
(*                                                                         *)
(* A dataset is a sequence of points, a point a sequence of integer        *)
(* coordinates.  The datasets of the model are lattice datasets whose      *)
(* pairwise Euclidean distances are integers: on them every float64        *)
(* operation up to the final division is exact, so the arithmetic below is *)
(* the arithmetic numpy performs.  A float64 value is a record             *)
(* [kind, n, d]: "fin" is the rational n/d in lowest terms, "surd" is the  *)
(* irrational square root of n/d, "nan", "inf" and "ninf" are the IEEE     *)
(* specials; a raised exception is a record whose kind is its class name.  *)
(***************************************************************************)
EXTENDS Integers, Sequences, FiniteSets

\* Bounds of the model: the largest point count and the largest coordinate.
MaxN == 3
MaxCoord == 2

----------------------------------------------------------------------------
\* Integer helpers.

Abs(x) == IF x < 0 THEN -x ELSE x

RECURSIVE Gcd(_, _)
Gcd(a, b) == IF b = 0 THEN Abs(a) ELSE Gcd(b, a % b)

\* The integer part of the square root of n >= 0.
ISqrt(n) == CHOOSE r \in 0..n : r * r <= n /\ n < (r + 1) * (r + 1)

IsSquare(n) == n >= 0 /\ ISqrt(n) * ISqrt(n) = n

----------------------------------------------------------------------------
\* float64 values.

Val(k, n, d) == [kind |-> k, n |-> n, d |-> d]

NaN == Val("nan", 0, 0)
PosInf == Val("inf", 0, 0)
NegInf == Val("ninf", 0, 0)
NoValue == Val("none", 0, 0)
ValueError == Val("ValueError", 0, 0)

\* The rational n/d, d > 0, in lowest terms.
Fin(n, d) == LET g == Gcd(n, d) IN Val("fin", n \div g, d \div g)

IsReal(v) == v.kind \in {"fin", "surd"}

\* Mutant: the operands of the division exchanged (denom/numerator).
np_divide_Swapped(num, den) ==
    IF num = 0
    THEN IF den = 0 THEN NaN ELSE IF den > 0 THEN PosInf ELSE NegInf
    ELSE Fin(den, num)

\* numerator/denom on numpy float64 scalars: a zero divisor gives nan or an
\* infinity (with a RuntimeWarning), never an exception.
np_divide(num, den) ==
    IF den = 0
    THEN IF num = 0 THEN NaN ELSE IF num > 0 THEN PosInf ELSE NegInf
    ELSE Fin(num, den)

\* np.sqrt on a float64 scalar.
np_sqrt(v) ==
    CASE v.kind = "nan" -> NaN
      [] v.kind = "inf" -> PosInf
      [] v.kind = "ninf" -> NaN
      [] v.kind = "fin" ->
            IF v.n < 0 THEN NaN
            ELSE IF IsSquare(v.n) /\ IsSquare(v.d)
                 THEN Val("fin", ISqrt(v.n), ISqrt(v.d))
                 ELSE Val("surd", v.n, v.d)

----------------------------------------------------------------------------
\* scipy.spatial.distance.pdist and the numpy array operations.

RECURSIVE SumSeq(_)
SumSeq(s) == IF s = << >> THEN 0 ELSE Head(s) + SumSeq(Tail(s))

\* np.sum of a one-dimensional array; the sum of an empty array is 0.
np_sum(a) == SumSeq(a)

\* ||u - v||_2 squared.
SqDist(u, v) == SumSeq([k \in 1..Len(u) |-> (u[k] - v[k]) * (u[k] - v[k])])

\* Mutant: the norm of v instead of the norm of u - v.
euclidean_FromOrigin(u, v) ==
    ISqrt(SumSeq([k \in 1..Len(v) |-> v[k] * v[k]]))

\* The Euclidean metric pdist uses by default.
euclidean(u, v) == ISqrt(SqDist(u, v))

\* Row i of the condensed distance matrix: the distances from point i to the
\* points i+1 .. n.
RECURSIVE CondensedFrom(_, _)
CondensedFrom(D, i) ==
    IF i >= Len(D) THEN << >>
    ELSE [j \in 1..(Len(D) - i) |-> euclidean(D[i], D[i + j])]
         \o CondensedFrom(D, i + 1)

\* Mutant: the last pair (n-1, n) is left out.
pdist_DropLast(D) ==
    LET full == CondensedFrom(D, 1)
    IN IF full = << >> THEN full ELSE SubSeq(full, 1, Len(full) - 1)

\* pdist(D): the condensed distance vector, pairs (i, j), i < j, in row-major
\* order; it is empty for fewer than two points.
pdist(D) == CondensedFrom(D, 1)

\* numpy broadcasting of two one-dimensional arrays: equal lengths, or one
\* of them of length 1, which is stretched to the other's length.
Broadcastable(a, b) == Len(a) = Len(b) \/ Len(a) = 1 \/ Len(b) = 1

BroadcastLen(a, b) ==
    IF Len(a) = Len(b) THEN Len(a) ELSE IF Len(a) = 1 THEN Len(b) ELSE Len(a)

At(a, k) == IF Len(a) = 1 THEN a[1] ELSE a[k]

\* Mutant: a + b in place of a - b.
np_subtract_Add(a, b) == [k \in 1..BroadcastLen(a, b) |-> At(a, k) + At(b, k)]

\* Mutant: D_tot - D_red[::-1], the reduced distances taken in reverse order.
np_subtract_Reversed(a, b) ==
    [k \in 1..BroadcastLen(a, b) |->
        At(a, k) - At(b, BroadcastLen(a, b) + 1 - k)]

\* a - b, elementwise with broadcasting.
np_subtract(a, b) == [k \in 1..BroadcastLen(a, b) |-> At(a, k) - At(b, k)]

\* Mutant: a*2 in place of a**2.
np_square_Double(a) == [k \in 1..Len(a) |-> a[k] * 2]

\* a**2, elementwise.
np_square(a) == [k \in 1..Len(a) |-> a[k] * a[k]]

----------------------------------------------------------------------------
\* def stress(X_reduced, X)

\* Mutant: np.sum(D_tot - D_red), the square forgotten.
numerator_NoSquare(X_reduced, X) ==
    np_sum(np_subtract(pdist(X), pdist(X_reduced)))

\* Mutant: np.sum(D_tot - D_red)**2, the square of the sum.
numerator_SquareOfSum(X_reduced, X) ==
    np_sum(np_subtract(pdist(X), pdist(X_reduced)))
        * np_sum(np_subtract(pdist(X), pdist(X_reduced)))

\* Mutant: np.sum(D_tot**2) + np.sum(D_red**2), the cross term of the
\* expanded square dropped.
numerator_NoCrossTerm(X_reduced, X) ==
    np_sum(np_square(pdist(X))) + np_sum(np_square(pdist(X_reduced)))

numerator(X_reduced, X) ==
    np_sum(np_square(np_subtract(pdist(X), pdist(X_reduced))))

\* Mutant: np.sum(D_red**2), normalising by the reduced distances.
denom_OfReduced(X_reduced, X) == np_sum(np_square(pdist(X_reduced)))

\* Mutant: np.sum(D_tot**2) + np.sum(D_red**2), a symmetric normalisation.
denom_OfBoth(X_reduced, X) ==
    np_sum(np_square(pdist(X))) + np_sum(np_square(pdist(X_reduced)))

denom(X_reduced, X) == np_sum(np_square(pdist(X)))

stress(X_reduced, X) ==
    IF ~Broadcastable(pdist(X), pdist(X_reduced))
    THEN ValueError
    ELSE np_sqrt(np_divide(numerator(X_reduced, X), denom(X_reduced, X)))

\* The local names of a call of stress when it ends: line is the last line
\* executed, 241 when the subtraction raised and 243 when the call returned.
\* sq_err is the temporary (D_tot - D_red)**2; names never bound are empty.
NoFrame ==
    [line |-> 0, D_red |-> << >>, D_tot |-> << >>, sq_err |-> << >>,
     numerator |-> << >>, denom |-> << >>]

StressFrame(X_reduced, X) ==
    IF ~Broadcastable(pdist(X), pdist(X_reduced))
    THEN [line |-> 241, D_red |-> pdist(X_reduced), D_tot |-> pdist(X),
          sq_err |-> << >>, numerator |-> << >>, denom |-> << >>]
    ELSE [line |-> 243, D_red |-> pdist(X_reduced), D_tot |-> pdist(X),
          sq_err |-> np_square(np_subtract(pdist(X), pdist(X_reduced))),
          numerator |-> <<numerator(X_reduced, X)>>,
          denom |-> <<denom(X_reduced, X)>>]

----------------------------------------------------------------------------
\* The datasets of the model.

Coord == 0..MaxCoord

Line == {<<x>> : x \in Coord}
\* The lattice points on the two axes of the plane.
Axes == {<<x, 0>> : x \in Coord} \cup {<<0, y>> : y \in Coord}

AllDistancesIntegers(D) ==
    \A i \in 1..Len(D) : \A j \in 1..Len(D) : IsSquare(SqDist(D[i], D[j]))

DatasetsOver(points) ==
    {D \in UNION {[1..n -> points] : n \in 0..MaxN} : AllDistancesIntegers(D)}

\* The worked example of the specification: a 3-4-5 triangle, and the same
\* number of points collapsed onto the origin.
Triangle == << <<0, 0>>, <<0, 3>>, <<4, 0>> >>
Collapsed == << <<0, 0>>, <<0, 0>>, <<0, 0>> >>

\* X: the data in the full-dimensional space (here the plane).
Originals == DatasetsOver(Axes) \cup {Triangle}

\* Distance-preserving images of D in the same dimension: a translation, the
\* reflection of a coordinate, the exchange of the two axes.
Translate(D, t) == [i \in 1..Len(D) |-> [k \in 1..Len(D[i]) |-> D[i][k] + t[k]]]
Reflect(D, c) ==
    [i \in 1..Len(D) |-> [k \in 1..Len(D[i]) |-> IF k = c THEN -D[i][k] ELSE D[i][k]]]
SwapAxes(D) == [i \in 1..Len(D) |-> <<D[i][2], D[i][1]>>]

Shifts == {<<1, 0>>, <<0, 1>>, <<-1, 2>>}

Isometric(D) ==
    {Translate(D, t) : t \in Shifts} \cup {Reflect(D, c) : c \in {1, 2}}
        \cup {SwapAxes(D)}

\* Feature selection: the columns cols of D, in that order.
SelectColumns(D, cols) ==
    [i \in 1..Len(D) |-> [k \in 1..Len(cols) |-> D[i][cols[k]]]]

\* The selections of one of the two features.
Selections(D) == {SelectColumns(D, cols) : cols \in {<<1>>, <<2>>}}

\* What a reduction of X may hand to stress: any dataset on the line, an
\* isometric image of X, a selection of its features, or the collapsed
\* example.
Reductions(D) ==
    DatasetsOver(Line) \cup Isometric(D) \cup Selections(D) \cup {Collapsed}

----------------------------------------------------------------------------
\* The notebook: X is loaded once and every cell that reports a stress
\* builds a reduced dataset and prints stress(X_reduced, X); the first such
\* cell prints stress(X, X).  prev keeps what the cell before printed and
\* frame the local names of the last call of stress.

VARIABLES X, X_reduced, ret, prev, frame

\* calls: the calls of stress in progress on other threads, each with its
\* argument, the line it runs next and its local names.
VARIABLES calls

\* pca: the names bound by the cells of the principal component analysis;
\* manifold: the names bound by the cells of the manifold learning section.
VARIABLES pca, manifold

vars == <<X, X_reduced, ret, prev, frame, calls, pca, manifold>>

\* No cell of the section has run yet.
NoPCA == [cell |-> "none"]
NoManifold == [cell |-> "none"]

NoCall == [X_reduced |-> << >>, ret |-> NoValue]

Init ==
    /\ X \in Originals
    /\ X_reduced \in {X} \cup Reductions(X)
    /\ ret = NoValue
    /\ prev = NoCall
    /\ frame = NoFrame
    /\ calls = << >>
    /\ pca = NoPCA
    /\ manifold = NoManifold

\* Mutant: the call centres X_reduced on its first point in place.
CallStress_InPlace ==
    /\ ret = NoValue
    /\ ret' = stress(X_reduced, X)
    /\ frame' = StressFrame(X_reduced, X)
    /\ X_reduced' = [i \in 1..Len(X_reduced) |->
                        [k \in 1..Len(X_reduced[i]) |->
                            X_reduced[i][k] - X_reduced[1][k]]]
    /\ UNCHANGED <<X, prev, calls, pca, manifold>>

\* Mutant: the result is memoised on X alone, so that a second call returns
\* what the first one returned.
CallStress_Cached ==
    /\ ret = NoValue
    /\ ret' = IF prev = NoCall THEN stress(X_reduced, X) ELSE prev.ret
    /\ frame' = StressFrame(X_reduced, X)
    /\ UNCHANGED <<X, X_reduced, prev, calls, pca, manifold>>

\* print(stress(X_reduced, X))
CallStress ==
    /\ ret = NoValue
    /\ ret' = stress(X_reduced, X)
    /\ frame' = StressFrame(X_reduced, X)
    /\ UNCHANGED <<X, X_reduced, prev, calls, pca, manifold>>

Next == CallStress

Spec == Init /\ [][Next]_vars

\* Two consecutive cells reporting the stress of two reductions of the same
\* X, each with as many points as X.
NextCell ==
    /\ ret # NoValue
    /\ prev = NoCall
    /\ prev' = [X_reduced |-> X_reduced, ret |-> ret]
    /\ \E R \in Reductions(X) : Len(R) = Len(X) /\ X_reduced' = R
    /\ ret' = NoValue
    /\ UNCHANGED <<X, frame, calls, pca, manifold>>

InitCompare ==
    /\ Init
    /\ Len(X_reduced) = Len(X)
    /\ X_reduced # X

NextCompare == CallStress \/ NextCell

SpecCompare == InitCompare /\ [][NextCompare]_vars

----------------------------------------------------------------------------
\* The quantities of the specification, summed over the set of unordered
\* pairs rather than along the condensed vectors.

Pairs(n) == {p \in (1..n) \X (1..n) : p[1] < p[2]}

\* The Euclidean distance between the points of pair p of D: the r >= 0
\* with r^2 = ||D[i] - D[j]||^2.
Distance(D, p) ==
    LET q == SqDist(D[p[1]], D[p[2]]) IN CHOOSE r \in 0..q : r * r = q

RECURSIVE SumFn(_, _)
SumFn(f, S) ==
    IF S = {} THEN 0
    ELSE LET p == CHOOSE q \in S : TRUE IN f[p] + SumFn(f, S \ {p})

\* sum over i<j of (d_ij - e_ij)^2
SumSquaredError(original, reduced) ==
    SumFn([p \in Pairs(Len(original)) |->
              (Distance(original, p) - Distance(reduced, p))
                  * (Distance(original, p) - Distance(reduced, p))],
          Pairs(Len(original)))

\* sum over i<j of d_ij^2
SumSquaredDistance(original) ==
    SumFn([p \in Pairs(Len(original)) |->
              Distance(original, p) * Distance(original, p)],
          Pairs(Len(original)))

\* Equal point count N >= 2 and an original that is not degenerate.
ValidInput(original, reduced) ==
    /\ Len(original) = Len(reduced)
    /\ Len(original) >= 2
    /\ SumSquaredDistance(original) # 0

Called == ret # NoValue

Raised(v) == v.kind = "ValueError"

\* The square of a real value, as a fraction SqN/SqD.
SqN(v) == IF v.kind = "fin" THEN v.n * v.n ELSE v.n
SqD(v) == IF v.kind = "fin" THEN v.d * v.d ELSE v.d

IsZero(v) == v.kind = "fin" /\ v.n = 0
IsOne(v) == v.kind = "fin" /\ v.n = 1 /\ v.d = 1

\* a <= b for two non-negative real values.
Leq(a, b) == SqN(a) * SqD(b) <= SqN(b) * SqD(a)

\* C1: for equal point counts N >= 2 and a non-zero sum of squared original
\* distances, stress returns the non-negative real whose square is
\* sum_{i<j} (d_ij - e_ij)^2 / sum_{i<j} d_ij^2.
C1_StressFormula ==
    (Called /\ ValidInput(X, X_reduced)) =>
        /\ IsReal(ret) /\ ret.n >= 0 /\ ret.d > 0
        /\ SqN(ret) * SumSquaredDistance(X)
               = SumSquaredError(X, X_reduced) * SqD(ret)

\* A call on three points whose result is an irrational strictly between 0
\* and 1.
C1_Witness ==
    /\ Called /\ ValidInput(X, X_reduced) /\ Len(X) = 3
    /\ ret.kind = "surd"
    /\ 0 < SumSquaredError(X, X_reduced)
    /\ SumSquaredError(X, X_reduced) < SumSquaredDistance(X)

\* C2: a call with two datasets of different point counts raises an error
\* and returns no value.
C2_MismatchRaises ==
    (Called /\ Len(X) # Len(X_reduced)) => Raised(ret)

\* C3: a call whose original has N >= 2 coinciding points (and a reduced
\* dataset of the same count) raises an error; it returns neither NaN nor
\* infinity.
C3_DegenerateRaises ==
    (/\ Called
     /\ Len(X) = Len(X_reduced)
     /\ Len(X) >= 2
     /\ SumSquaredDistance(X) = 0) => Raised(ret)

\* C4: a call with datasets of fewer than 2 points raises an error and
\* returns no value.
C4_TooFewPointsRaises ==
    (Called /\ Len(X) = Len(X_reduced) /\ Len(X) < 2) => Raised(ret)

\* C5: for every valid dataset X, stress(X, X) is 0.
C5_Identity ==
    (Called /\ X_reduced = X /\ ValidInput(X, X)) => IsZero(ret)

\* stress(X, X) was called on the triangle.
C5_Witness ==
    Called /\ X_reduced = X /\ X = Triangle /\ IsZero(ret)

\* C6: for every valid input pair the value returned is a real number >= 0.
C6_NonNegative ==
    (Called /\ ValidInput(X, X_reduced)) =>
        IsReal(ret) /\ ret.n >= 0 /\ ret.d > 0

\* A valid call that returned a value greater than 1.
C6_Witness ==
    /\ Called /\ ValidInput(X, X_reduced)
    /\ IsReal(ret) /\ ret.n > ret.d

\* C7: if reduced is a translation, a reflection of a coordinate or an
\* exchange of the axes of a valid original, stress is 0.
C7_Isometry ==
    (Called /\ ValidInput(X, X_reduced) /\ X_reduced \in Isometric(X)) =>
        IsZero(ret)

\* A call on a reflected image that differs from the original.
C7_Witness ==
    /\ Called /\ ValidInput(X, X_reduced) /\ Len(X) = 3
    /\ X_reduced = Reflect(X, 2) /\ X_reduced # X
    /\ IsZero(ret)

\* A call on a translated image.
TranslatedCalled ==
    /\ Called /\ ValidInput(X, X_reduced)
    /\ \E t \in Shifts : X_reduced = Translate(X, t)

\* The squared error of pair p against the original X.
PairError(reduced, p) ==
    LET d == Distance(X, p)
        e == Distance(reduced, p)
    IN (d - e) * (d - e)

\* reduced_A preserves every pairwise distance of X at least as well as
\* reduced_B.
NoWorse(A, B) ==
    \A p \in Pairs(Len(X)) : PairError(A, p) <= PairError(B, p)

BothCalled ==
    /\ Called /\ prev # NoCall
    /\ ValidInput(X, X_reduced) /\ ValidInput(X, prev.X_reduced)

\* C8: for a fixed valid original and two reduced datasets A and B, if every
\* pair's squared error for A is <= that for B, stress(original, A) <=
\* stress(original, B).
C8_Monotonic ==
    BothCalled =>
        /\ NoWorse(prev.X_reduced, X_reduced) => Leq(prev.ret, ret)
        /\ NoWorse(X_reduced, prev.X_reduced) => Leq(ret, prev.ret)

\* Two calls where the second reduction is strictly worse on some pair and
\* no better on any, and the reported stress grew.
C8_Witness ==
    /\ BothCalled /\ Len(X) = 3
    /\ NoWorse(prev.X_reduced, X_reduced)
    /\ ~NoWorse(X_reduced, prev.X_reduced)
    /\ ~Leq(ret, prev.ret)

AllCoincide(D) == \A i \in 1..Len(D) : D[i] = D[1]

\* C9: for every valid original and a reduced dataset of the same count whose
\* points all coincide, stress is exactly 1; for the triangle against the
\* collapsed dataset both sums are 50.
C9_CollapsedIsOne ==
    (Called /\ ValidInput(X, X_reduced) /\ AllCoincide(X_reduced)) =>
        /\ IsOne(ret)
        /\ (X = Triangle /\ X_reduced = Collapsed) =>
               /\ numerator(X_reduced, X) = 50
               /\ denom(X_reduced, X) = 50

\* The worked example was called.
C9_Witness ==
    /\ Called /\ X = Triangle /\ X_reduced = Collapsed
    /\ numerator(X_reduced, X) = 50 /\ denom(X_reduced, X) = 50
    /\ IsOne(ret)

DistancesPreserved(original, reduced) ==
    \A p \in Pairs(Len(original)) :
        Distance(reduced, p) = Distance(original, p)

\* C10: for every valid input pair, stress is 0 exactly when every pairwise
\* distance is preserved, and strictly positive otherwise.
C10_ZeroIffPreserved ==
    (Called /\ ValidInput(X, X_reduced)) =>
        /\ IsReal(ret) /\ ret.n >= 0
        /\ IsZero(ret) <=> DistancesPreserved(X, X_reduced)

\* A call on the line that preserved every distance, so that stress is 0
\* for a reduced dataset that is not X.
C10_Witness ==
    /\ Called /\ ValidInput(X, X_reduced) /\ Len(X) = 3
    /\ Len(X_reduced[1]) = 1
    /\ DistancesPreserved(X, X_reduced) /\ IsZero(ret)

\* A call that changed a single distance and returned a positive value.
OnePairChanged ==
    /\ Called /\ ValidInput(X, X_reduced) /\ Len(X) = 3
    /\ Cardinality({p \in Pairs(3) : PairError(X_reduced, p) # 0}) = 1
    /\ ~IsZero(ret)

\* C11: a call of stress leaves both input datasets as they were, whether
\* it returns or raises, and writes nothing but its own local names and its
\* result.
C11_NoSideEffects ==
    [][(ret = NoValue /\ ret' # NoValue) =>
           /\ X' = X /\ X_reduced' = X_reduced /\ prev' = prev
           /\ calls' = calls /\ pca' = pca /\ manifold' = manifold]_vars

\* A call that raised and a call that returned have both happened on
\* datasets that are not already centred on their first point.
C11_Witness ==
    /\ Called /\ Raised(ret) /\ frame.line = 241
    /\ Len(X_reduced) > 0 /\ X_reduced[1] # <<0>>

ReturnedOffCentre ==
    /\ Called /\ IsReal(ret) /\ frame.line = 243
    /\ X_reduced[1] # <<0>> /\ X_reduced[1] # <<0, 0>>

\* C12: the outcome of a call depends on its two arguments only: a second
\* call with the arguments of the first has the same outcome, and the value
\* of a second call on valid arguments is the value the formula gives for
\* these arguments, whatever the first call was.
C12_NoCarryOver ==
    (Called /\ prev # NoCall) =>
        /\ (prev.X_reduced = X_reduced) => (ret = prev.ret)
        /\ ValidInput(X, X_reduced) =>
               /\ IsReal(ret) /\ ret.n >= 0 /\ ret.d > 0
               /\ SqN(ret) * SumSquaredDistance(X)
                      = SumSquaredError(X, X_reduced) * SqD(ret)

\* A second call whose arguments and value differ from the first call's.
C12_Witness ==
    /\ Called /\ prev # NoCall /\ ValidInput(X, X_reduced)
    /\ prev.X_reduced # X_reduced /\ IsReal(prev.ret) /\ ret # prev.ret

\* A second call with the arguments of the first.
SameCallTwice ==
    /\ Called /\ prev # NoCall /\ ValidInput(X, X_reduced)
    /\ prev.X_reduced = X_reduced /\ ~IsZero(ret)

\* The position of pair (i, j), i < j, of n points in the condensed vector:
\* n*i - i*(i+1)/2 + (j - i - 1) for indices from 0, here from 1.
CondensedIndex(n, p) ==
    n * (p[1] - 1) - ((p[1] - 1) * p[1]) \div 2 + (p[2] - p[1] - 1) + 1

\* C14: for N points in both datasets each sum has N*(N-1)/2 terms, one for
\* every pair i < j, and the numerator term of a pair subtracts the reduced
\* distance of that same pair from its original distance.
C14_OneTermPerPair ==
    (Called /\ Len(X) = Len(X_reduced)) =>
        LET n == Len(X)
            m == (n * (n - 1)) \div 2
        IN /\ Len(frame.D_tot) = m /\ Len(frame.D_red) = m
           /\ Len(frame.sq_err) = m
           /\ \A p \in Pairs(n) : \A q \in Pairs(n) :
                  (CondensedIndex(n, p) = CondensedIndex(n, q)) => p = q
           /\ \A p \in Pairs(n) :
                  /\ CondensedIndex(n, p) \in 1..m
                  /\ frame.D_tot[CondensedIndex(n, p)] = Distance(X, p)
                  /\ frame.D_red[CondensedIndex(n, p)] = Distance(X_reduced, p)
                  /\ frame.sq_err[CondensedIndex(n, p)]
                         = (Distance(X, p) - Distance(X_reduced, p))
                               * (Distance(X, p) - Distance(X_reduced, p))

\* A call on three points whose three pairs have three different errors.
C14_Witness ==
    /\ Called /\ Len(X) = 3 /\ Len(X_reduced) = 3
    /\ Cardinality({frame.sq_err[k] : k \in 1..3}) = 3

\* The datasets of a family on which stress grows with the coordinate m:
\* d = (0, 1, 1) and e = (m, 0, m), so that stress^2 = m^2 - m + 1.
Anchored == << <<0, 0>>, <<0, 0>>, <<1, 0>> >>
Stretched(m) == << <<0>>, <<m>>, <<0>> >>

\* C15: the stress has no finite upper bound: for every coordinate m of the
\* model there is a valid call whose value is sqrt(m^2 - m + 1), which is
\* more than 1 from m = 2 on and exceeds any bound as m grows.
C15_Unbounded ==
    \A m \in Coord :
        (Called /\ X = Anchored /\ X_reduced = Stretched(m)) =>
            /\ ValidInput(X, X_reduced) /\ IsReal(ret)
            /\ SqN(ret) = (m * m - m + 1) * SqD(ret)
            /\ (m >= 2) => ~Leq(ret, Val("fin", 1, 1))

\* The largest member of the family was called and its stress is above 1
\* and at least MaxCoord - 1.
C15_Witness ==
    /\ Called /\ X = Anchored /\ X_reduced = Stretched(MaxCoord)
    /\ ~Leq(ret, Val("fin", 1, 1))
    /\ Leq(Val("fin", MaxCoord - 1, 1), ret)

\* C20: stress takes (X_reduced, X) and normalises by the distances of its
\* second argument alone: whenever the call returns, denom is the sum of
\* the squared pairwise distances of X, whatever X_reduced is.
C20_NormalisedBySecond ==
    (Called /\ ~Raised(ret)) =>
        /\ frame.line = 243
        /\ frame.denom = <<SumSquaredDistance(X)>>
        /\ ValidInput(X, X_reduced) =>
               SqN(ret) * frame.denom[1] = frame.numerator[1] * SqD(ret)

\* A valid pair for which the exchange of the two arguments is valid too
\* and gives another value: stress is not symmetric.
C20_Witness ==
    /\ Called /\ ValidInput(X, X_reduced) /\ ValidInput(X_reduced, X)
    /\ frame.numerator[1] = numerator(X, X_reduced)
    /\ frame.denom[1] # denom(X, X_reduced)
    /\ IsReal(stress(X, X_reduced))
    /\ stress(X, X_reduced) # ret

----------------------------------------------------------------------------
\* Concurrent callers: NumCallers threads each call stress on the shared X,
\* with an argument that may be shared too, one line of the function at a
\* time and in any order.

NumCallers == 2

Callers == 1..NumCallers

\* The shared datasets of the concurrent calls.
SharedOriginals == {Triangle, Anchored}

SharedReductions(D) ==
    {D, Collapsed, Stretched(MaxCoord), << <<0>>, <<1>> >>, << <<0>> >>}

\* A call that has bound its argument and runs line 239 next.
Entered(R) ==
    [pc |-> 239, X_reduced |-> R, D_red |-> << >>, D_tot |-> << >>,
     numerator |-> << >>, denom |-> << >>, ret |-> NoValue]

InitConcurrent ==
    /\ X \in SharedOriginals
    /\ calls \in [Callers -> {Entered(R) : R \in SharedReductions(X)}]
    /\ X_reduced = X
    /\ ret = NoValue
    /\ prev = NoCall
    /\ frame = NoFrame
    /\ pca = NoPCA
    /\ manifold = NoManifold

\* Mutant: D_red is a module-level name, shared by every caller.
Line239_Global(p) ==
    /\ calls[p].pc = 239
    /\ calls' = [q \in Callers |->
                    IF q = p
                    THEN [calls[q] EXCEPT !.D_red = pdist(calls[p].X_reduced),
                                          !.pc = 240]
                    ELSE IF calls[q].pc \in {240, 241}
                         THEN [calls[q] EXCEPT
                                  !.D_red = pdist(calls[p].X_reduced)]
                         ELSE calls[q]]
    /\ UNCHANGED <<X, X_reduced, ret, prev, frame, pca, manifold>>

\* D_red = pdist(X_reduced)
Line239(p) ==
    /\ calls[p].pc = 239
    /\ calls' = [calls EXCEPT ![p].D_red = pdist(calls[p].X_reduced),
                              ![p].pc = 240]
    /\ UNCHANGED <<X, X_reduced, ret, prev, frame, pca, manifold>>

\* D_tot = pdist(X)
Line240(p) ==
    /\ calls[p].pc = 240
    /\ calls' = [calls EXCEPT ![p].D_tot = pdist(X), ![p].pc = 241]
    /\ UNCHANGED <<X, X_reduced, ret, prev, frame, pca, manifold>>

\* numerator = np.sum((D_tot - D_red)**2); the subtraction raises when the
\* two vectors cannot be broadcast, which ends the call.
Line241(p) ==
    /\ calls[p].pc = 241
    /\ calls' =
          IF ~Broadcastable(calls[p].D_tot, calls[p].D_red)
          THEN [calls EXCEPT ![p].ret = ValueError, ![p].pc = 0]
          ELSE [calls EXCEPT
                   ![p].numerator =
                       <<np_sum(np_square(np_subtract(calls[p].D_tot,
                                                      calls[p].D_red)))>>,
                   ![p].pc = 242]
    /\ UNCHANGED <<X, X_reduced, ret, prev, frame, pca, manifold>>

\* denom = np.sum(D_tot**2)
Line242(p) ==
    /\ calls[p].pc = 242
    /\ calls' = [calls EXCEPT
                    ![p].denom = <<np_sum(np_square(calls[p].D_tot))>>,
                    ![p].pc = 243]
    /\ UNCHANGED <<X, X_reduced, ret, prev, frame, pca, manifold>>

\* return np.sqrt(numerator/denom)
Line243(p) ==
    /\ calls[p].pc = 243
    /\ calls' = [calls EXCEPT
                    ![p].ret = np_sqrt(np_divide(calls[p].numerator[1],
                                                 calls[p].denom[1])),
                    ![p].pc = 0]
    /\ UNCHANGED <<X, X_reduced, ret, prev, frame, pca, manifold>>

NextConcurrent ==
    \E p \in Callers :
        Line239(p) \/ Line240(p) \/ Line241(p) \/ Line242(p) \/ Line243(p)

SpecConcurrent == InitConcurrent /\ [][NextConcurrent]_vars

\* C13: under every interleaving of the lines of concurrent calls, each call
\* ends with the outcome it has when it runs alone, and no step changes the
\* shared X or the argument of any call.
C13_ConcurrentCallers ==
    /\ [](\A p \in Callers :
             (calls[p].pc = 0) =>
                 calls[p].ret = stress(calls[p].X_reduced, X))
    /\ [][/\ X' = X
          /\ \A p \in Callers : calls'[p].X_reduced = calls[p].X_reduced]_vars

\* One call has ended with a value while a call with another argument is
\* still between its lines.
C13_Witness ==
    /\ calls[1].pc = 0 /\ IsReal(calls[1].ret)
    /\ calls[2].pc \in {241, 242}
    /\ calls[1].X_reduced # calls[2].X_reduced

\* Both calls are in the middle of the function at once.
BothInFlight ==
    calls[1].pc = 241 /\ calls[2].pc = 242

----------------------------------------------------------------------------
\* reduced keeps a subset of the coordinates of original.
KeepsCoordinates(original, reduced) ==
    reduced = original \/ reduced \in Selections(original)

\* 0 <= e_ij <= c * d_ij for every pair.
WithinFactor(original, reduced, c) ==
    \A p \in Pairs(Len(original)) :
        /\ 0 <= Distance(reduced, p)
        /\ Distance(reduced, p) <= c * Distance(original, p)

\* C21: for a valid original, a reduced dataset that keeps a subset of its
\* coordinates has 0 <= e_ij <= d_ij for every pair and a stress of at most
\* 1; more generally the stress is at most 1 whenever 0 <= e_ij <= 2 * d_ij
\* for every pair.
C21_AtMostOne ==
    (Called /\ ValidInput(X, X_reduced)) =>
        /\ KeepsCoordinates(X, X_reduced) => WithinFactor(X, X_reduced, 1)
        /\ WithinFactor(X, X_reduced, 2) =>
               IsReal(ret) /\ Leq(ret, Fin(1, 1))

\* The triangle reduced to its first feature: e = (0, 4, 4) against
\* d = (3, 4, 5), a stress strictly between 0 and 1.
C21_Witness ==
    /\ Called /\ ValidInput(X, X_reduced)
    /\ X = Triangle /\ X_reduced = SelectColumns(X, <<1>>)
    /\ IsReal(ret) /\ ~IsZero(ret) /\ ~Leq(Fin(1, 1), ret)

\* A reduction that doubles a distance, e = 2 * d, reaches the bound.
DoubledReachesOne ==
    /\ Called /\ ValidInput(X, X_reduced)
    /\ WithinFactor(X, X_reduced, 2) /\ ~WithinFactor(X, X_reduced, 1)
    /\ IsOne(ret)

\* Beyond the factor 2 the bound fails.
BeyondTwiceExceedsOne ==
    /\ Called /\ ValidInput(X, X_reduced)
    /\ ~WithinFactor(X, X_reduced, 2)
    /\ IsReal(ret) /\ ~Leq(ret, Fin(1, 1))

----------------------------------------------------------------------------
\* Principal component analysis.  The covariance matrix C is modelled as a
\* diagonal matrix with distinct integer entries: its eigenvalues are its
\* diagonal entries and its eigenvectors the unit vectors.  np.linalg.eig
\* returns the eigenpairs in an order it does not specify.  The data X
\* enters these cells through C and through np.dot(X, projector) only; the
\* model keeps C and the projector.

NumEig == 4
MaxEig == 4

EigIndex == 1..NumEig

Unit(j) == [i \in EigIndex |-> IF i = j THEN 1 ELSE 0]

Diagonal(vals) ==
    [i \in EigIndex |-> [j \in EigIndex |-> IF i = j THEN vals[i] ELSE 0]]

Injective(f) == \A i \in DOMAIN f : \A j \in DOMAIN f : f[i] = f[j] => i = j

\* The covariance matrices of the model.
Covariances ==
    {Diagonal(vals) : vals \in {f \in [EigIndex -> 1..MaxEig] : Injective(f)}}

\* The orders in which eig may return the eigenpairs.
Orders == {f \in [EigIndex -> EigIndex] : Injective(f)}

\* sorted list order of Python tuples (value, index).
TupleLess(a, b) == a[1] < b[1] \/ (a[1] = b[1] /\ a[2] < b[2])

RECURSIVE InsertSorted(_, _)
InsertSorted(x, lst) ==
    IF lst = << >> THEN <<x>>
    ELSE IF TupleLess(x, Head(lst)) THEN <<x>> \o lst
         ELSE <<Head(lst)>> \o InsertSorted(x, Tail(lst))

\* list.sort()
RECURSIVE list_sort(_)
list_sort(lst) ==
    IF lst = << >> THEN << >> ELSE InsertSorted(Head(lst), list_sort(Tail(lst)))

\* list.reverse()
list_reverse(lst) == [i \in 1..Len(lst) |-> lst[Len(lst) + 1 - i]]

\* a[idxs] for a list idxs of indices counted from 0.
np_take(a, idxs) == [i \in 1..Len(idxs) |-> a[idxs[i] + 1]]

\* The cell of lines 476-490, for eig returning the eigenpairs in order o.
EigCellResult(C, o) ==
    LET w == [i \in EigIndex |-> C[o[i]][o[i]]]
        \* eig_vecs = eig_vecs.T: row i is the eigenvector of w[i]
        vecs == [i \in EigIndex |-> Unit(o[i])]
        idxs0 == [i \in EigIndex |-> i - 1]
        vals_ids == list_reverse(list_sort([i \in EigIndex |-> <<w[i], idxs0[i]>>]))
        eig_vals == [i \in EigIndex |-> vals_ids[i][1]]
        eig_idxs == [i \in EigIndex |-> vals_ids[i][2]]
    IN [cell |-> "eig", C |-> C, eig_vals |-> eig_vals, eig_vecs |-> vecs,
        eig_idxs |-> eig_idxs,
        eig_vals_sorted |-> np_take(eig_vals, eig_idxs),
        eig_vecs_sorted |-> np_take(vecs, eig_idxs)]

InitPCA ==
    /\ X \in {Triangle}
    /\ X_reduced = X
    /\ ret = NoValue
    /\ prev = NoCall
    /\ frame = NoFrame
    /\ calls = << >>
    /\ manifold = NoManifold
    /\ \E C \in Covariances : pca = [cell |-> "cov", C |-> C]

\* eig_vals, eig_vecs = np.linalg.eig(C) ... eig_vecs_sorted = eig_vecs[eig_idxs]
EigCell ==
    /\ pca.cell = "cov"
    /\ \E o \in Orders : pca' = EigCellResult(pca.C, o)
    /\ UNCHANGED <<X, X_reduced, ret, prev, frame, calls, manifold>>

\* eig_matrix = np.row_stack(eig_vecs_sorted)
EigMatrixCell ==
    /\ pca.cell = "eig"
    /\ pca' = [cell |-> "matrix", C |-> pca.C, eig_vals |-> pca.eig_vals,
               eig_vecs |-> pca.eig_vecs, eig_idxs |-> pca.eig_idxs,
               eig_vals_sorted |-> pca.eig_vals_sorted,
               eig_vecs_sorted |-> pca.eig_vecs_sorted,
               eig_matrix |-> pca.eig_vecs_sorted]
    /\ UNCHANGED <<X, X_reduced, ret, prev, frame, calls, manifold>>

\* k = ...; projector = np.column_stack(eig_vecs[:k]); the projector is kept
\* as the sequence of its columns.
ProjectorCell ==
    /\ pca.cell = "matrix"
    /\ \E k \in EigIndex :
          pca' = [cell |-> "projector", C |-> pca.C, eig_vals |-> pca.eig_vals,
                  eig_vecs |-> pca.eig_vecs, eig_idxs |-> pca.eig_idxs,
                  eig_vals_sorted |-> pca.eig_vals_sorted,
                  eig_vecs_sorted |-> pca.eig_vecs_sorted,
                  eig_matrix |-> pca.eig_matrix,
                  k |-> k, projector |-> SubSeq(pca.eig_vecs, 1, k)]
    /\ UNCHANGED <<X, X_reduced, ret, prev, frame, calls, manifold>>

NextPCA == EigCell \/ EigMatrixCell \/ ProjectorCell

SpecPCA == InitPCA /\ [][NextPCA]_vars

\* v is an eigenvector of C for the eigenvalue lambda.
MatVec(C, v) == [i \in EigIndex |-> SumSeq([j \in EigIndex |-> C[i][j] * v[j]])]
Belongs(C, v, lambda) ==
    /\ v # [i \in EigIndex |-> 0]
    /\ MatVec(C, v) = [i \in EigIndex |-> lambda * v[i]]

\* The eigenvalues of C.
Spectrum(C) == {C[i][i] : i \in EigIndex}

\* The k largest eigenvalues of C.
Largest(C, k) ==
    {v \in Spectrum(C) : Cardinality({u \in Spectrum(C) : u > v}) < k}

EigCellRan == pca.cell \in {"eig", "matrix", "projector"}

\* C16: after the eigenvalue-sorting cell eig_vals_sorted holds every
\* eigenvalue once, in non-increasing order.
C16_EigValsSorted ==
    EigCellRan =>
        /\ {pca.eig_vals_sorted[i] : i \in EigIndex} = Spectrum(pca.C)
        /\ \A i \in 1..(NumEig - 1) :
               pca.eig_vals_sorted[i] >= pca.eig_vals_sorted[i + 1]

\* C17: after the eigenvalue-sorting cell eig_vecs_sorted[i] is an
\* eigenvector for eig_vals_sorted[i], for every i, and the first three rows
\* of eig_matrix are eigenvectors of the three largest eigenvalues.
C17_PairingKept ==
    /\ EigCellRan =>
           \A i \in EigIndex :
               Belongs(pca.C, pca.eig_vecs_sorted[i], pca.eig_vals_sorted[i])
    /\ (pca.cell \in {"matrix", "projector"}) =>
           \A i \in 1..3 :
               \E v \in Largest(pca.C, 3) : Belongs(pca.C, pca.eig_matrix[i], v)

\* C18: the columns of the projector are eigenvectors of the k largest
\* eigenvalues of C, one for each, whatever the order eig returned.
C18_ProjectorTopK ==
    (pca.cell = "projector") =>
        /\ Len(pca.projector) = pca.k
        /\ \A v \in Largest(pca.C, pca.k) :
               \E j \in 1..pca.k : Belongs(pca.C, pca.projector[j], v)

\* What does hold: eig_vecs_sorted lists the eigenvectors by non-increasing
\* eigenvalue, so the first three rows of eig_matrix belong to the three
\* largest eigenvalues.
EigVecsSortedByValue ==
    EigCellRan =>
        \A i \in EigIndex :
            Belongs(pca.C, pca.eig_vecs_sorted[i], pca.eig_vals[i])

----------------------------------------------------------------------------
\* Manifold learning.  An estimator is a record of its class and of the
\* embedding_ attribute that fit_transform stores on it and returns; the
\* embedding an iterative, randomly initialised fit arrives at is any
\* 2-column dataset with one row for each row of X.

NotFitted == << <<"not fitted">> >>

MDS == [class |-> "MDS", n_components |-> 2, embedding_ |-> NotFitted]
TSNE == [class |-> "TSNE", n_components |-> 2, embedding_ |-> NotFitted]

Embeddings(D) == {D} \cup Isometric(D) \cup {[i \in 1..Len(D) |-> <<0, 0>>]}

\* est.fit_transform(X) arriving at the embedding E: the estimator afterwards.
fit_transform(est, E) ==
    [class |-> est.class, n_components |-> est.n_components, embedding_ |-> E]

InitManifold ==
    /\ X \in Originals
    /\ X_reduced = X
    /\ ret = NoValue
    /\ prev = NoCall
    /\ frame = NoFrame
    /\ calls = << >>
    /\ pca = NoPCA
    /\ manifold = NoManifold

\* mds = MDS(...); X_mds = mds.fit_transform(X); print(stress(X_mds, X))
MDSCell ==
    /\ manifold.cell = "none"
    /\ \E E \in Embeddings(X) :
          /\ manifold' = [cell |-> "mds", mds |-> fit_transform(MDS, E),
                          X_mds |-> fit_transform(MDS, E).embedding_]
          /\ X_reduced' = E
          /\ ret' = stress(E, X)
          /\ frame' = StressFrame(E, X)
    /\ UNCHANGED <<X, prev, calls, pca>>

\* tsne = TSNE(...); X_tsne = mds.fit_transform(X); print(stress(X_tsne, X))
TSNECell ==
    /\ manifold.cell = "mds"
    /\ \E E \in Embeddings(X) :
          /\ manifold' = [cell |-> "tsne",
                          mds |-> fit_transform(manifold.mds, E),
                          X_mds |-> manifold.X_mds,
                          tsne |-> TSNE,
                          X_tsne |-> fit_transform(manifold.mds, E).embedding_]
          /\ X_reduced' = E
          /\ ret' = stress(E, X)
          /\ frame' = StressFrame(E, X)
    /\ UNCHANGED <<X, prev, calls, pca>>

NextManifold == MDSCell \/ TSNECell

SpecManifold == InitManifold /\ [][NextManifold]_vars

\* C19: after the t-SNE cell, X_tsne, whose stress the cell reports, is the
\* embedding of the estimator tsne constructed in that cell.
C19_TsneEmbedding ==
    (manifold.cell = "tsne") =>
        /\ manifold.X_tsne = manifold.tsne.embedding_
        /\ ret = stress(manifold.tsne.embedding_, X)

\* What the cell does: X_tsne is a second fit of the MDS estimator, and tsne
\* is never fitted.
XTsneIsFromMds ==
    (manifold.cell = "tsne") =>
        /\ manifold.X_tsne = manifold.mds.embedding_
        /\ manifold.mds.class = "MDS"
        /\ manifold.tsne.embedding_ = NotFitted
        /\ ret = stress(manifold.X_tsne, X)

====
